---- MODULE Spec2Model ----
(***************************************************************************)
(* A model of the collection enrichment code of board_game_helper:         *)
(*   fetchCollection  (src/collection/collection.go:149-206)               *)
(*   fetchGame        (src/collection/collection.go:208-277)               *)
(*   parsePolls       (src/collection/collection.go:279-319)               *)
(*   jsonDecode       (src/collection/collection.go:321-346)               *)
(* The pipeline is a state machine: the handler goroutine running          *)
(* fetchCollection and one goroutine per collection item.  The provider    *)
(* (boardgamegeek) is the environment: each GET is answered with a         *)
(* transport error or with a status and a body, chosen                     *)
(* nondeterministically.                                                   *)
(***************************************************************************)
EXTENDS Integers, Sequences, FiniteSets, TLC

(***************************************************************************)
(* Bounds of the model.                                                    *)
(***************************************************************************)
\* the longest collection feed (number of <item> elements)
MaxItems == 3
\* the number of consecutive 202 answers the provider gives before the model
\* makes it answer something else
MaxRetries == 3
\* the longest poll (number of <results> rows) drawn in SpecPolls
MaxRows == 2

(***************************************************************************)
(* Program constants.                                                      *)
(***************************************************************************)
StatusOK == 200
StatusAccepted == 202

\* a nil error
Nil == "nil"

\* a nil pointer (*poll, *game)
NilPtr == [nil |-> TRUE]

(***************************************************************************)
(* strconv.Atoi, strings.TrimSuffix and strings.HasSuffix on a label.      *)
(* A string is a sequence of one-character strings.                        *)
(***************************************************************************)
Digits == <<"0", "1", "2", "3", "4", "5", "6", "7", "8", "9">>

IsDigit(c) == \E d \in 1..10 : Digits[d] = c

DigitVal(c) == (CHOOSE d \in 1..10 : Digits[d] = c) - 1

RECURSIVE ParseDigits(_, _)
ParseDigits(s, acc) ==
    IF s = <<>> THEN acc
    ELSE ParseDigits(Tail(s), acc * 10 + DigitVal(Head(s)))

\* strconv.Atoi: an optional sign, then one or more decimal digits
Atoi(s) ==
    LET signed == s # <<>> /\ Head(s) \in {"+", "-"}
        body   == IF signed THEN Tail(s) ELSE s
    IN  IF body = <<>> \/ \E k \in 1..Len(body) : ~IsDigit(body[k])
        THEN [ok |-> FALSE, val |-> 0]
        ELSE [ok |-> TRUE,
              val |-> IF signed /\ Head(s) = "-"
                      THEN 0 - ParseDigits(body, 0)
                      ELSE ParseDigits(body, 0)]

HasSuffixPlus(s) == s # <<>> /\ s[Len(s)] = "+"

TrimSuffixPlus(s) == IF HasSuffixPlus(s) THEN SubSeq(s, 1, Len(s) - 1) ELSE s

(***************************************************************************)
(* parsePolls.  A poll is [Name, Results]; a row of Results is             *)
(* [NumPlayers, Votes] with Votes the sequence of numvotes.  The result is *)
(* [bestAt, recAt, err], or a runtime panic when a row has fewer than      *)
(* three votes (index out of range).                                       *)
(***************************************************************************)
PollName == "suggested_numplayers"

PollsReturn(b, r, e) == [bestAt |-> b, recAt |-> r, err |-> e]

ErrAtoi == "Failed to convert numPlayers string to int"

Panic == "panic: index out of range"

\* a mutant of SelectPoll: the first poll named suggested_numplayers is kept
RECURSIVE SelectPollFirst(_, _)
SelectPollFirst(polls, playerPoll) ==
    IF polls = <<>> THEN playerPoll
    ELSE SelectPollFirst(Tail(polls),
                         IF playerPoll = NilPtr /\ Head(polls).Name = PollName
                         THEN Head(polls) ELSE playerPoll)

\* the loop of lines 281-291: the last poll named suggested_numplayers
RECURSIVE SelectPoll(_, _)
SelectPoll(polls, playerPoll) ==
    IF polls = <<>> THEN playerPoll
    ELSE SelectPoll(Tail(polls),
                    IF Head(polls).Name = PollName THEN Head(polls) ELSE playerPoll)

\* a mutant of VoteFloor: a row with best + recommended = not recommended counts
VoteFloorStrict(bestVotes, recVotes, nayVotes) == bestVotes + recVotes < nayVotes

\* line 302: the row contributes nothing
VoteFloor(bestVotes, recVotes, nayVotes) == bestVotes + recVotes <= nayVotes

\* lines 305-307: bestAt is set, never cleared, by a row that passes the floor
MarkBest(bestAt, bestVotes, recVotes) == bestAt \/ bestVotes > recVotes

\* a mutant of RowMatches: an or-more row covers the counts up to twice its own, exclusive
RowMatchesBelowDouble(label, numPlayers, targetPlayers) ==
    \/ HasSuffixPlus(label) /\ numPlayers * 2 > targetPlayers
    \/ numPlayers = targetPlayers

\* lines 308-315: the row matches the target
RowMatches(label, numPlayers, targetPlayers) ==
    \/ HasSuffixPlus(label) /\ numPlayers * 2 >= targetPlayers
    \/ numPlayers = targetPlayers

\* a mutant of MatchReturn: recAt is left at its zero value
MatchReturnBestOnly(bestAt) == PollsReturn(bestAt, FALSE, Nil)

\* lines 310 and 314
MatchReturn(bestAt) == PollsReturn(bestAt, ~bestAt, Nil)

\* a mutant of NoMatchReturn: the named results are returned as they stand
NoMatchReturnNaked(bestAt) == PollsReturn(bestAt, FALSE, Nil)

\* line 318: no row matched
NoMatchReturn(bestAt) == PollsReturn(FALSE, FALSE, Nil)

\* a mutant of ScanRows: the vote floor is tested before the label is parsed
RECURSIVE ScanRowsFloorFirst(_, _, _, _)
ScanRowsFloorFirst(rows, k, bestAt, targetPlayers) ==
    IF k > Len(rows) THEN NoMatchReturn(bestAt)
    ELSE LET playerCount == rows[k] IN
         IF Len(playerCount.Votes) < 3 THEN PollsReturn(FALSE, FALSE, Panic)
         ELSE LET bestVotes == playerCount.Votes[1]
                  recVotes  == playerCount.Votes[2]
                  nayVotes  == playerCount.Votes[3]
                  conv      == Atoi(TrimSuffixPlus(playerCount.NumPlayers))
              IN  IF VoteFloor(bestVotes, recVotes, nayVotes)
                  THEN ScanRowsFloorFirst(rows, k + 1, bestAt, targetPlayers)
                  ELSE IF ~conv.ok THEN PollsReturn(FALSE, FALSE, ErrAtoi)
                  ELSE LET b == MarkBest(bestAt, bestVotes, recVotes) IN
                       IF RowMatches(playerCount.NumPlayers, conv.val, targetPlayers)
                       THEN MatchReturn(b)
                       ELSE ScanRowsFloorFirst(rows, k + 1, b, targetPlayers)

\* the loop of lines 294-316, from row k on, with the bestAt carried so far
RECURSIVE ScanRows(_, _, _, _)
ScanRows(rows, k, bestAt, targetPlayers) ==
    IF k > Len(rows) THEN NoMatchReturn(bestAt)
    ELSE LET playerCount == rows[k] IN
         IF Len(playerCount.Votes) < 3 THEN PollsReturn(FALSE, FALSE, Panic)
         ELSE LET bestVotes == playerCount.Votes[1]
                  recVotes  == playerCount.Votes[2]
                  nayVotes  == playerCount.Votes[3]
                  conv      == Atoi(TrimSuffixPlus(playerCount.NumPlayers))
              IN  IF ~conv.ok THEN PollsReturn(FALSE, FALSE, ErrAtoi)
                  ELSE IF VoteFloor(bestVotes, recVotes, nayVotes)
                       THEN ScanRows(rows, k + 1, bestAt, targetPlayers)
                       ELSE LET b == MarkBest(bestAt, bestVotes, recVotes) IN
                            IF RowMatches(playerCount.NumPlayers, conv.val, targetPlayers)
                            THEN MatchReturn(b)
                            ELSE ScanRows(rows, k + 1, b, targetPlayers)

\* a mutant of parsePolls: the rows are scanned from the last to the first
parsePollsReversed(polls, targetPlayers) ==
    LET playerPoll == SelectPoll(polls, NilPtr) IN
    IF playerPoll = NilPtr THEN PollsReturn(FALSE, FALSE, Nil)
    ELSE LET rows == playerPoll.Results IN
         ScanRows([k \in 1..Len(rows) |-> rows[Len(rows) + 1 - k]], 1, FALSE, targetPlayers)

parsePolls(polls, targetPlayers) ==
    LET playerPoll == SelectPoll(polls, NilPtr) IN
    IF playerPoll = NilPtr THEN PollsReturn(FALSE, FALSE, Nil)
    ELSE ScanRows(playerPoll.Results, 1, FALSE, targetPlayers)

(***************************************************************************)
(* jsonDecode.  The statistics page is a sequence of tokens:               *)
(*   "x"  a byte that is neither a brace nor part of the needle            *)
(*   "N"  the needle GEEK.geekitemPreload                                  *)
(*   "{" "}"  the braces of a JSON object                                  *)
(*   "i" "s" "o"  the keys "item", "stats" and any other key, each to be   *)
(*        followed by an object                                            *)
(*   "a1" "a2"  the four statistics as numeric strings (two payloads)      *)
(*   "b"  a statistic whose string is not a number                         *)
(***************************************************************************)
Needle == "N"

ErrNoNeedle == "Couldn't find GEEK.geekitemPreload in htmlRaw"

ErrNoBrace == "Couldn't find the first brace in preloaded data"

ErrBadJSON == "Failed to parse json"

\* the gameJSON zero value, and the statistics in tenths
ZeroStats == [Score |-> 0, Weight |-> 0, BScore |-> 0, Ratings |-> 0]

PayloadStats(tok) ==
    IF tok = "a1" THEN [Score |-> 75, Weight |-> 23, BScore |-> 71, Ratings |-> 1000]
    ELSE [Score |-> 62, Weight |-> 31, BScore |-> 58, Ratings |-> 40]

\* a mutant of IndexFrom: the last position of tok at or after position from
IndexFromLast(s, tok, from) ==
    IF \E k \in from..Len(s) : s[k] = tok
    THEN CHOOSE k \in from..Len(s) : s[k] = tok /\ \A j \in (k + 1)..Len(s) : s[j] # tok
    ELSE 0

\* bytes.Index / bytes.IndexByte: the first position (from 1) of tok at or
\* after position from, 0 when there is none
IndexFrom(s, tok, from) ==
    IF \E k \in from..Len(s) : s[k] = tok
    THEN CHOOSE k \in from..Len(s) : s[k] = tok /\ \A j \in from..(k - 1) : s[j] # tok
    ELSE 0

\* json.Decoder.Decode into struct{ Item struct{ Stats gameJSON } }: the
\* members of the object opened before position p; path is the keys from the
\* root; acc is [stats, typeErr].  Returns [ok, next, acc].
RECURSIVE DecodeMembers(_, _, _, _)
DecodeMembers(s, p, path, acc) ==
    IF p > Len(s) THEN [ok |-> FALSE, next |-> p, acc |-> acc]
    ELSE IF s[p] = "}" THEN [ok |-> TRUE, next |-> p + 1, acc |-> acc]
    ELSE IF s[p] \in {"i", "s", "o"}
         THEN IF p + 1 <= Len(s) /\ s[p + 1] = "{"
              THEN LET sub == DecodeMembers(s, p + 2, Append(path, s[p]), acc) IN
                   IF sub.ok THEN DecodeMembers(s, sub.next, path, sub.acc) ELSE sub
              ELSE [ok |-> FALSE, next |-> p, acc |-> acc]
    ELSE IF s[p] \in {"a1", "a2"}
         THEN DecodeMembers(s, p + 1, path,
                  IF path = <<"i", "s">>
                  THEN [acc EXCEPT !.stats = PayloadStats(s[p])] ELSE acc)
    ELSE IF s[p] = "b"
         THEN DecodeMembers(s, p + 1, path,
                  IF path = <<"i", "s">> THEN [acc EXCEPT !.typeErr = TRUE] ELSE acc)
    ELSE [ok |-> FALSE, next |-> p, acc |-> acc]

\* a mutant of jsonDecode: the object must be all that is left of the page
\* (json.Unmarshal in place of a Decoder)
jsonDecodeUnmarshal(htmlRaw) ==
    LET start == IndexFrom(htmlRaw, Needle, 1) IN
    IF start = 0 THEN [stats |-> ZeroStats, err |-> ErrNoNeedle]
    ELSE LET brace == IndexFrom(htmlRaw, "{", start + 1) IN
         IF brace = 0 THEN [stats |-> ZeroStats, err |-> ErrNoBrace]
         ELSE LET d == DecodeMembers(htmlRaw, brace + 1, <<>>,
                                     [stats |-> ZeroStats, typeErr |-> FALSE])
              IN  IF ~d.ok \/ d.acc.typeErr \/ d.next <= Len(htmlRaw)
                  THEN [stats |-> ZeroStats, err |-> ErrBadJSON]
                  ELSE [stats |-> d.acc.stats, err |-> Nil]

\* a mutant of jsonDecode: a page without the needle or without a brace gives
\* the zero statistics and no error
jsonDecodeLenient(htmlRaw) ==
    LET start == IndexFrom(htmlRaw, Needle, 1) IN
    IF start = 0 THEN [stats |-> ZeroStats, err |-> Nil]
    ELSE LET brace == IndexFrom(htmlRaw, "{", start + 1) IN
         IF brace = 0 THEN [stats |-> ZeroStats, err |-> Nil]
         ELSE LET d == DecodeMembers(htmlRaw, brace + 1, <<>>,
                                     [stats |-> ZeroStats, typeErr |-> FALSE])
              IN  IF ~d.ok \/ d.acc.typeErr
                  THEN [stats |-> ZeroStats, err |-> ErrBadJSON]
                  ELSE [stats |-> d.acc.stats, err |-> Nil]

jsonDecode(htmlRaw) ==
    LET start == IndexFrom(htmlRaw, Needle, 1) IN
    IF start = 0 THEN [stats |-> ZeroStats, err |-> ErrNoNeedle]
    ELSE LET brace == IndexFrom(htmlRaw, "{", start + 1) IN
         IF brace = 0 THEN [stats |-> ZeroStats, err |-> ErrNoBrace]
         ELSE LET d == DecodeMembers(htmlRaw, brace + 1, <<>>,
                                     [stats |-> ZeroStats, typeErr |-> FALSE])
              IN  IF ~d.ok \/ d.acc.typeErr
                  THEN [stats |-> ZeroStats, err |-> ErrBadJSON]
                  ELSE [stats |-> d.acc.stats, err |-> Nil]

(***************************************************************************)
(* The provider's documents.                                               *)
(***************************************************************************)
Row(label, votes) == [NumPlayers |-> label, Votes |-> votes]

\* the identifiers a collection feed may list
Ids == {"13", "42"}

\* a collection feed body: malformed XML, or a list of <item objectid=...>
BadXML == [malformed |-> TRUE]

RECURSIVE SeqsUpTo(_, _)
SeqsUpTo(S, n) ==
    IF n = 0 THEN {<<>>}
    ELSE LET shorter == SeqsUpTo(S, n - 1) IN
         shorter \cup {Append(q, x) : q \in {r \in shorter : Len(r) = n - 1}, x \in S}

\* the item lists of the feeds: n times the same identifier (duplicates), and
\* n identifiers in alternation
SameIds(n) == [k \in 1..n |-> "13"]

AlternateIds(n) == [k \in 1..n |-> IF k % 2 = 1 THEN "13" ELSE "42"]

FeedBodies ==
    {BadXML} \cup {[malformed |-> FALSE, Items |-> q] :
                     q \in {SameIds(n) : n \in 0..MaxItems}
                           \cup {AlternateIds(n) : n \in 0..MaxItems}}

\* game metadata bodies (xmlapi2/thing)
DocCatan ==
    [malformed |-> FALSE,
     Names |-> << [Name |-> "Die Siedler", Type |-> "alternate"],
                  [Name |-> "Catan", Type |-> "primary"],
                  [Name |-> "Settlers", Type |-> "primary"] >>,
     MinPlayers |-> 3, MaxPlayers |-> 4,
     Polls |-> << [Name |-> "language_dependence", Results |-> <<>>],
                  [Name |-> PollName,
                   Results |-> << Row(<<"2">>, <<0, 1, 9>>),
                                  Row(<<"3">>, <<2, 7, 1>>),
                                  Row(<<"4">>, <<8, 2, 0>>),
                                  Row(<<"4", "+">>, <<0, 1, 5>>) >>] >>]

DocBadLabel ==
    [malformed |-> FALSE,
     Names |-> << [Name |-> "Odd", Type |-> "primary"] >>,
     MinPlayers |-> 2, MaxPlayers |-> 2,
     Polls |-> << [Name |-> PollName,
                   Results |-> << Row(<<"x">>, <<1, 1, 0>>) >>] >>]

DocShortVotes ==
    [malformed |-> FALSE,
     Names |-> << [Name |-> "Short", Type |-> "primary"] >>,
     MinPlayers |-> 2, MaxPlayers |-> 2,
     Polls |-> << [Name |-> PollName,
                   Results |-> << Row(<<"2">>, <<1, 1>>) >>] >>]

GameBodies == {BadXML, DocCatan, DocBadLabel, DocShortVotes}

\* statistics pages (boardgame/<id>)
HtmlGood == <<"x", "N", "x", "{", "i", "{", "s", "{", "a1", "}", "}", "}", "x", "{">>

HtmlNoNeedle == <<"x", "{", "i", "{", "s", "{", "a1", "}", "}", "}">>

HtmlBodies == {HtmlGood, HtmlNoNeedle}

\* the statuses the provider answers with, besides a transport error
Statuses == {StatusOK, StatusAccepted, 404}

TransportError == [failed |-> TRUE]

Response(status, body) == [failed |-> FALSE, StatusCode |-> status, Body |-> body]

\* the target player counts the Collection handler passes on (it accepts 1..100)
Targets == {3, 4}

(***************************************************************************)
(* fetchGame, as the two stages between which it waits for the provider.   *)
(***************************************************************************)
Err(msg, detail) == [msg |-> msg, detail |-> detail]

NilErr == Err("nil", "")

\* what the model notes of an answer: resp.Status, or that the GET failed
NotIssued == ""

Transport == "transport"

StatusText(status) ==
    CASE status = StatusOK -> "200 OK"
      [] status = StatusAccepted -> "202 Accepted"
      [] OTHER -> "404 Not Found"

\* a mutant of PrimaryName: the first name, of whatever type
PrimaryNameAny(names) == IF names = <<>> THEN "" ELSE Head(names).Name

\* lines 233-238: the first name of type "primary", "" when there is none
RECURSIVE PrimaryName(_)
PrimaryName(names) ==
    IF names = <<>> THEN ""
    ELSE IF Head(names).Type = "primary" THEN Head(names).Name
    ELSE PrimaryName(Tail(names))

\* a mutant of BadStatus: only 4xx and 5xx are refused
BadStatusLenient(status) == status >= 400

\* line 224 and line 257: the status check of a per-item fetch
BadStatus(status) == status # StatusOK

\* a mutant of XmlStage: an error of parsePolls is logged and the game is
\* taken as neither best nor recommended
XmlStageIgnorePolls(xresp, targetPlayers) ==
    IF xresp.failed
    THEN [kind |-> "err", xstatus |-> Transport,
          err |-> Err("error fetching game xml", Transport)]
    ELSE IF BadStatus(xresp.StatusCode)
    THEN [kind |-> "err", xstatus |-> StatusText(xresp.StatusCode),
          err |-> Err("Bad status code fetching game xml", StatusText(xresp.StatusCode))]
    ELSE IF xresp.Body.malformed
    THEN [kind |-> "err", xstatus |-> StatusText(xresp.StatusCode),
          err |-> Err("error decoding game xml", "xml")]
    ELSE LET gXML == xresp.Body
             p    == parsePolls(gXML.Polls, targetPlayers)
         IN  IF p.err = Panic THEN [kind |-> "panic", xstatus |-> StatusText(xresp.StatusCode)]
             ELSE [kind |-> "ok", xstatus |-> StatusText(xresp.StatusCode),
                   PrimaryName |-> PrimaryName(gXML.Names),
                   bestAt |-> p.bestAt, recAt |-> p.recAt,
                   MinPlayers |-> gXML.MinPlayers, MaxPlayers |-> gXML.MaxPlayers]

\* lines 218-243, given the provider's answer xresp to the metadata GET:
\* [kind |-> "err", err], [kind |-> "panic"] or [kind |-> "ok", the locals
\* fetchGame goes on with]
XmlStage(xresp, targetPlayers) ==
    IF xresp.failed
    THEN [kind |-> "err", xstatus |-> Transport,
          err |-> Err("error fetching game xml", Transport)]
    ELSE IF BadStatus(xresp.StatusCode)
    THEN [kind |-> "err", xstatus |-> StatusText(xresp.StatusCode),
          err |-> Err("Bad status code fetching game xml", StatusText(xresp.StatusCode))]
    ELSE IF xresp.Body.malformed
    THEN [kind |-> "err", xstatus |-> StatusText(xresp.StatusCode),
          err |-> Err("error decoding game xml", "xml")]
    ELSE LET gXML == xresp.Body
             p    == parsePolls(gXML.Polls, targetPlayers)
         IN  IF p.err = Panic THEN [kind |-> "panic", xstatus |-> StatusText(xresp.StatusCode)]
             ELSE IF p.err # Nil
             THEN [kind |-> "err", xstatus |-> StatusText(xresp.StatusCode),
                   err |-> Err("error parsing polls", p.err)]
             ELSE [kind |-> "ok", xstatus |-> StatusText(xresp.StatusCode),
                   PrimaryName |-> PrimaryName(gXML.Names),
                   bestAt |-> p.bestAt, recAt |-> p.recAt,
                   MinPlayers |-> gXML.MinPlayers, MaxPlayers |-> gXML.MaxPlayers]

\* lines 251-276, given the locals of the first stage and the provider's
\* answer jresp to the statistics GET: [g, err].  addr is the identity of the
\* allocation &game{...} of line 265: one per call, here the caller's index.
JsonStage(jresp, loc, gameID, addr) ==
    IF jresp.failed
    THEN [g |-> NilPtr, jstatus |-> Transport, err |-> Err("error fetching game json", Transport)]
    ELSE IF BadStatus(jresp.StatusCode)
    THEN [g |-> NilPtr, jstatus |-> StatusText(jresp.StatusCode),
          err |-> Err("Bad status code fetching game json", StatusText(jresp.StatusCode))]
    ELSE LET gJSON == jsonDecode(jresp.Body) IN
         IF gJSON.err # Nil
         THEN [g |-> NilPtr, jstatus |-> StatusText(jresp.StatusCode),
               err |-> Err("Unable to decode json", gJSON.err)]
         ELSE [g |-> [nil |-> FALSE, addr |-> addr,
                      Name |-> loc.PrimaryName, ID |-> gameID,
                      Best |-> loc.bestAt, Rec |-> loc.recAt,
                      MinPlayers |-> loc.MinPlayers, MaxPlayers |-> loc.MaxPlayers,
                      Score |-> gJSON.stats.Score, Weight |-> gJSON.stats.Weight,
                      BScore |-> gJSON.stats.BScore, Ratings |-> gJSON.stats.Ratings],
               jstatus |-> StatusText(jresp.StatusCode),
               err |-> NilErr]

(***************************************************************************)
(* Inputs of parsePolls drawn in SpecPolls.                                *)
(***************************************************************************)
Labels == { <<"2">>, <<"3">>, <<"2", "+">>, <<"6", "+">>, <<"1", "2">>, <<"x">> }

Tallies == { <<5, 5, 0>>, <<2, 1, 3>>, <<10, 0, 0>>, <<1, 3, 0>>, <<1, 1>> }

Rows == {Row(l, v) : l \in Labels, v \in Tallies}

PollTargets == {2, 3, 4, 12, 13}

PollNames == {PollName, "suggested_playerage"}

\* a poll that classifies every target of PollTargets as best
LeadPoll == [Name |-> PollName, Results |-> << Row(<<"1", "+">>, <<9, 0, 0>>),
                                               Row(<<"6", "+">>, <<9, 0, 0>>) >>]

\* the polls drawn: every row sequence under the name parsePolls looks for,
\* and the short ones under the other name, whose rows are never read
PollLists ==
    LET polls == {[Name |-> PollName, Results |-> rs] : rs \in SeqsUpTo(Rows, MaxRows)}
                 \cup {[Name |-> n, Results |-> rs] :
                          n \in PollNames \ {PollName}, rs \in SeqsUpTo(Rows, 1)}
    IN  {<<>>} \cup {<<q>> : q \in polls} \cup {<<LeadPoll, q>> : q \in polls}

(***************************************************************************)
(* State.                                                                  *)
(***************************************************************************)
VARIABLES
    pc,          \* fetchCollection: "off", "get", "read", "unmarshal", "spawn",
                 \* "wait", "scan", "done"
    crashed,     \* the process died of a goroutine's panic
    numPlayers,  \* the target player count
    feedLog,     \* what each GET of the feed fetch under way was answered with
                 \* (resp.Status, or Transport), until the body is read
    raw,         \* the feed body read
    items,       \* coll.Items: the identifiers
    next,        \* the loop variable i of line 186 (from 1)
    wg,          \* the WaitGroup counter
    allGames,    \* the slots
    ret,         \* what fetchCollection returned: [games, err]
    tpc,         \* per goroutine: "idle", "xml", "json", "store", "failed",
                 \* "exit", "done", "panic", "fatal"
    tloc,        \* per goroutine: its locals, until it returns from the func of line 189
    outcome,     \* per goroutine: what its fetchGame call did: "none", "ok", "err", "panic"
    writes,      \* per slot: the goroutines that wrote it, in order
    pIn,         \* SpecPolls: the argument [polls, target] of parsePolls
    pOut,        \* SpecPolls: its result
    pGame,       \* SpecPolls: what lines 218-243 of fetchGame make of it
    jIn,         \* SpecJson: the argument htmlRaw of jsonDecode, in its parts
    jOut,        \* SpecJson: its result
    gIn,         \* SpecGame: the names of the metadata document, the two
                 \* answers and the target of one fetchGame call
    gOut,        \* SpecGame: what the call returned
    lIn,         \* SpecLoad: the polls of the document loadGame decoded
    lOut         \* SpecLoad: the bestAt and recAt lists loadGame built

vars == <<pc, crashed, numPlayers, feedLog, raw, items, next, wg, allGames, ret,
          tpc, tloc, outcome, writes, pIn, pOut, pGame, jIn, jOut, gIn, gOut,
          lIn, lOut>>

pipeVars == <<pc, crashed, numPlayers, feedLog, raw, items, next, wg, allGames, ret,
              tpc, tloc, outcome, writes>>

pollVars == <<pIn, pOut, pGame>>

jsonVars == <<jIn, jOut>>

gameVars == <<gIn, gOut>>

loadVars == <<lIn, lOut>>

NoLocals == [kind |-> "none"]

NoReturn == [games |-> <<>>, err |-> NilErr]

NoResult == [bestAt |-> FALSE, recAt |-> FALSE, err |-> "not called"]

NoInput == [polls |-> <<>>, target |-> 0]

NoStage == [kind |-> "not called"]

NoPage == [pre |-> <<>>, core |-> [toks |-> <<>>, kind |-> "none", stats |-> ZeroStats],
           post |-> <<>>]

NoStats == [stats |-> ZeroStats, err |-> "not called"]

\* the variables of SpecPolls and SpecJson, unused
PollsIdle == pIn = NoInput /\ pOut = NoResult /\ pGame = NoStage

JsonIdle == jIn = NoPage /\ jOut = NoStats

NoCall == [names |-> <<>>, xresp |-> TransportError, jresp |-> TransportError, target |-> 0]

NoGame == [g |-> NilPtr, jstatus |-> NotIssued, err |-> Err("not called", "")]

GameIdle == gIn = NoCall /\ gOut = NoGame

NoLists == [bestAt |-> <<>>, recAt |-> <<>>, err |-> "not called"]

LoadIdle == lIn = <<>> /\ lOut = NoLists

PipeIdle(p) ==
    /\ pc = p
    /\ crashed = FALSE
    /\ feedLog = <<>>
    /\ raw = BadXML
    /\ items = <<>>
    /\ next = 1
    /\ wg = 0
    /\ allGames = <<>>
    /\ ret = NoReturn
    /\ tpc = <<>>
    /\ tloc = <<>>
    /\ outcome = <<>>
    /\ writes = <<>>

\* the Collection handler calls fetchCollection(client, bggName, numPlayers)
Init ==
    /\ PipeIdle("get")
    /\ numPlayers \in Targets
    /\ PollsIdle
    /\ JsonIdle
    /\ GameIdle
    /\ LoadIdle

(***************************************************************************)
(* fetchCollection: the feed fetch.                                        *)
(***************************************************************************)
FeedAnswers == {TransportError} \cup {Response(st, b) : st \in Statuses, b \in FeedBodies}

\* a mutant of FeedNext: every status but 200 is retried
FeedNextRetryNon200(r) ==
    IF r.failed THEN "return"
    ELSE IF r.StatusCode # StatusOK THEN "retry"
    ELSE "read"

\* a mutant of FeedNext: a transport error is retried too
FeedNextRetryOnError(r) ==
    IF r.failed \/ r.StatusCode = StatusAccepted THEN "retry"
    ELSE "read"

\* a mutant of FeedNext: the body of a 202 answer is read like any other
FeedNextReadAccepted(r) ==
    IF r.failed THEN "return"
    ELSE "read"

\* lines 161-171: what the answer r to the GET leads to
FeedNext(r) ==
    IF r.failed THEN "return"
    ELSE IF r.StatusCode = StatusAccepted THEN "retry"
    ELSE "read"

Returned(games, err) == [games |-> games, err |-> err]

\* line 161-171: one GET of the feed and the branch on its answer.
\* The provider answers 202 at most MaxRetries times in a row.
FeedGet ==
    /\ pc = "get"
    /\ ~crashed
    /\ \E r \in FeedAnswers :
         /\ (~r.failed /\ r.StatusCode = StatusAccepted) => Len(feedLog) < MaxRetries
         /\ feedLog' = Append(feedLog, IF r.failed THEN Transport ELSE StatusText(r.StatusCode))
         /\ CASE FeedNext(r) = "return" ->
                   /\ pc' = "done"
                   /\ ret' = Returned(<<>>, Err("error fetching collection", Transport))
                   /\ raw' = raw
              [] FeedNext(r) = "retry" ->
                   /\ pc' = "get"
                   /\ UNCHANGED <<ret, raw>>
              [] OTHER ->
                   /\ pc' = "read"
                   /\ raw' = r.Body
                   /\ ret' = ret
    /\ UNCHANGED <<crashed, numPlayers, items, next, wg, allGames, tpc, tloc, outcome,
                   writes, pollVars, jsonVars,
                   gameVars, loadVars>>

\* line 174: ioutil.ReadAll of the body, which may fail
FeedRead ==
    /\ pc = "read"
    /\ ~crashed
    /\ \E readOK \in BOOLEAN :
         IF readOK
         THEN /\ pc' = "unmarshal"
              /\ ret' = ret
         ELSE /\ pc' = "done"
              /\ ret' = Returned(<<>>, Err("Failed to read collection body", "read"))
    /\ feedLog' = <<>>
    /\ UNCHANGED <<crashed, numPlayers, raw, items, next, wg, allGames, tpc,
                   tloc, outcome, writes, pollVars, jsonVars,
                   gameVars, loadVars>>

\* where the loop of line 186 stands with n the next index and len the length
LoopPc(n, len) == IF n > len THEN "wait" ELSE "spawn"

\* lines 179-185: xml.Unmarshal and the allocation of the slots
FeedUnmarshal ==
    /\ pc = "unmarshal"
    /\ ~crashed
    /\ IF raw.malformed
       THEN /\ pc' = "done"
            /\ ret' = Returned(<<>>, Err("Failed to unmarshal XML", "xml"))
            /\ UNCHANGED <<items, allGames, tpc, tloc, outcome, writes, next>>
       ELSE /\ items' = raw.Items
            /\ allGames' = [k \in 1..Len(raw.Items) |-> NilPtr]
            /\ tpc' = [k \in 1..Len(raw.Items) |-> "idle"]
            /\ tloc' = [k \in 1..Len(raw.Items) |-> NoLocals]
            /\ outcome' = [k \in 1..Len(raw.Items) |-> "none"]
            /\ writes' = [k \in 1..Len(raw.Items) |-> <<>>]
            /\ next' = 1
            /\ pc' = LoopPc(1, Len(raw.Items))
            /\ ret' = ret
    /\ UNCHANGED <<crashed, numPlayers, feedLog, raw, wg, pollVars, jsonVars,
                   gameVars, loadVars>>

\* a mutant of AfterAdd: the counter is set to one, not incremented
AfterAddOnce(w) == 1

\* line 187: the counter after wg.Add(1)
AfterAdd(w) == w + 1

\* lines 186-198: one iteration: wg.Add(1) and the go statement
Launch ==
    /\ pc = "spawn"
    /\ ~crashed
    /\ wg' = AfterAdd(wg)
    /\ tpc' = [tpc EXCEPT ![next] = "xml"]
    /\ next' = next + 1
    /\ pc' = LoopPc(next + 1, Len(items))
    /\ UNCHANGED <<crashed, numPlayers, feedLog, raw, items, allGames, ret, tloc,
                   outcome, writes, pollVars, jsonVars,
                   gameVars, loadVars>>

\* a mutant of WaitReady: the wait ends with one goroutine still running
WaitReadyEarly(w) == w <= 1

\* line 199: wg.Wait() returns when the counter is zero
WaitReady(w) == w = 0

Wait ==
    /\ pc = "wait"
    /\ ~crashed
    /\ WaitReady(wg)
    /\ pc' = "scan"
    /\ UNCHANGED <<crashed, numPlayers, feedLog, raw, items, next, wg, allGames, ret,
                   tpc, tloc, outcome, writes, pollVars, jsonVars,
                   gameVars, loadVars>>

\* a mutant of AnyGame: only the first slot is looked at
AnyGameFirst(slots) == slots # <<>> /\ slots[1] # NilPtr

\* lines 200-204: some slot is not nil
AnyGame(slots) == \E k \in DOMAIN slots : slots[k] # NilPtr

\* a mutant of ScanResult: no slot at all is no failure
ScanResultEmptyOK(slots) ==
    IF AnyGame(slots) \/ slots = <<>> THEN Returned(slots, NilErr)
    ELSE Returned(<<>>, Err("no valid games found", ""))

\* lines 200-205
ScanResult(slots) ==
    IF AnyGame(slots) THEN Returned(slots, NilErr)
    ELSE Returned(<<>>, Err("no valid games found", ""))

Scan ==
    /\ pc = "scan"
    /\ ~crashed
    /\ ret' = ScanResult(allGames)
    /\ pc' = "done"
    /\ UNCHANGED <<crashed, numPlayers, feedLog, raw, items, next, wg, allGames,
                   tpc, tloc, outcome, writes, pollVars, jsonVars,
                   gameVars, loadVars>>

(***************************************************************************)
(* The goroutine of lines 189-197, for the item at index i.                *)
(***************************************************************************)
XmlAnswers == {TransportError} \cup {Response(st, b) : st \in Statuses, b \in GameBodies}

HtmlAnswers == {TransportError} \cup {Response(st, b) : st \in Statuses, b \in HtmlBodies}

\* line 191, first half: fetchGame up to the statistics GET
TaskGetXML(i) ==
    /\ ~crashed
    /\ tpc[i] = "xml"
    /\ \E xresp \in XmlAnswers :
         LET out == XmlStage(xresp, numPlayers) IN
         CASE out.kind = "ok" ->
                /\ tpc' = [tpc EXCEPT ![i] = "json"]
                /\ tloc' = [tloc EXCEPT ![i] = out]
                /\ outcome' = outcome
           [] out.kind = "err" ->
                /\ tpc' = [tpc EXCEPT ![i] = "failed"]
                /\ tloc' = [tloc EXCEPT ![i] =
                              [kind |-> "ret", g |-> NilPtr, err |-> out.err,
                               xstatus |-> out.xstatus, jstatus |-> NotIssued]]
                /\ outcome' = [outcome EXCEPT ![i] = "err"]
           [] OTHER ->
                /\ tpc' = [tpc EXCEPT ![i] = "panic"]
                /\ tloc' = tloc
                /\ outcome' = [outcome EXCEPT ![i] = "panic"]
    /\ UNCHANGED <<pc, crashed, numPlayers, feedLog, raw, items, next, wg, allGames,
                   ret, writes, pollVars, jsonVars,
                   gameVars, loadVars>>

\* lines 192-196: the branch on fetchGame's error
AfterFetch(err) == IF err # NilErr THEN "failed" ELSE "store"

\* line 191, second half: fetchGame from the statistics GET to its return
TaskGetJSON(i) ==
    /\ ~crashed
    /\ tpc[i] = "json"
    /\ \E jresp \in HtmlAnswers :
         LET out == JsonStage(jresp, tloc[i], items[i], i) IN
         /\ tpc' = [tpc EXCEPT ![i] = AfterFetch(out.err)]
         /\ tloc' = [tloc EXCEPT ![i] =
                       [kind |-> "ret", g |-> out.g, err |-> out.err,
                        xstatus |-> tloc[i].xstatus, jstatus |-> out.jstatus]]
         /\ outcome' = [outcome EXCEPT ![i] = IF out.err = NilErr THEN "ok" ELSE "err"]
    /\ UNCHANGED <<pc, crashed, numPlayers, feedLog, raw, items, next, wg, allGames,
                   ret, writes, pollVars, jsonVars,
                   gameVars, loadVars>>

\* a mutant of SlotOf: the loop variable is captured, and holds the last
\* index when the goroutines run
SlotOfLast(i) == Len(items)

\* a mutant of SlotOf: the slot is looked up by identifier
SlotOfFirst(i) == CHOOSE k \in 1..Len(items) :
                    items[k] = items[i] /\ \A j \in 1..(k - 1) : items[j] # items[i]

\* line 196: the slot goroutine i writes (i is the copy made at line 188)
SlotOf(i) == i

\* line 196: allGames[i] = g
TaskStore(i) ==
    /\ ~crashed
    /\ tpc[i] = "store"
    /\ allGames' = [allGames EXCEPT ![SlotOf(i)] = tloc[i].g]
    /\ writes' = [writes EXCEPT ![SlotOf(i)] = Append(@, i)]
    /\ tpc' = [tpc EXCEPT ![i] = "exit"]
    /\ tloc' = [tloc EXCEPT ![i] = NoLocals]
    /\ UNCHANGED <<pc, crashed, numPlayers, feedLog, raw, items, next, wg, ret,
                   outcome, pollVars, jsonVars,
                   gameVars, loadVars>>

\* lines 193-194: the warning is logged and the goroutine returns
TaskFail(i) ==
    /\ ~crashed
    /\ tpc[i] = "failed"
    /\ tpc' = [tpc EXCEPT ![i] = "exit"]
    /\ tloc' = [tloc EXCEPT ![i] = NoLocals]
    /\ UNCHANGED <<pc, crashed, numPlayers, feedLog, raw, items, next, wg, allGames,
                   ret, outcome, writes, pollVars, jsonVars,
                   gameVars, loadVars>>

\* a mutant of AfterDone: the first wg.Done() releases the waiter
AfterDoneReset(w) == 0

\* line 190: the counter after the deferred wg.Done()
AfterDone(w) == w - 1

\* line 190: the deferred wg.Done() of a goroutine that returned
TaskDone(i) ==
    /\ ~crashed
    /\ tpc[i] = "exit"
    /\ wg' = AfterDone(wg)
    /\ tpc' = [tpc EXCEPT ![i] = "done"]
    /\ UNCHANGED <<pc, crashed, numPlayers, feedLog, raw, items, next, allGames, ret,
                   tloc, outcome, writes, pollVars, jsonVars,
                   gameVars, loadVars>>

\* line 190 and line 295: the deferred wg.Done() runs while the goroutine
\* panics (index out of range)
TaskPanic(i) ==
    /\ ~crashed
    /\ tpc[i] = "panic"
    /\ wg' = AfterDone(wg)
    /\ tpc' = [tpc EXCEPT ![i] = "fatal"]
    /\ UNCHANGED <<pc, crashed, numPlayers, feedLog, raw, items, next, allGames, ret,
                   tloc, outcome, writes, pollVars, jsonVars,
                   gameVars, loadVars>>

\* the panic is not recovered: the runtime ends the process
Crash(i) ==
    /\ ~crashed
    /\ tpc[i] = "fatal"
    /\ crashed' = TRUE
    /\ UNCHANGED <<pc, numPlayers, feedLog, raw, items, next, wg, allGames, ret, tpc,
                   tloc, outcome, writes, pollVars, jsonVars,
                   gameVars, loadVars>>

Tasks == DOMAIN tpc

Next ==
    \/ FeedGet
    \/ FeedRead
    \/ FeedUnmarshal
    \/ Launch
    \/ Wait
    \/ Scan
    \/ \E i \in Tasks : TaskGetXML(i)
    \/ \E i \in Tasks : TaskGetJSON(i)
    \/ \E i \in Tasks : TaskStore(i)
    \/ \E i \in Tasks : TaskFail(i)
    \/ \E i \in Tasks : TaskDone(i)
    \/ \E i \in Tasks : TaskPanic(i)
    \/ \E i \in Tasks : Crash(i)

Spec == Init /\ [][Next]_vars

(***************************************************************************)
(* SpecFair: the pipeline under a fair scheduler.  The handler goroutine  *)
(* and every launched goroutine keep being scheduled while they can take a *)
(* step; the provider answers every GET (each GET step of the model        *)
(* includes its answer) and answers the feed with 202 at most MaxRetries   *)
(* times in a row.                                                         *)
(***************************************************************************)
MainStep == FeedGet \/ FeedRead \/ FeedUnmarshal \/ Launch \/ Wait \/ Scan

TaskStep(i) ==
    /\ i \in Tasks
    /\ \/ TaskGetXML(i) \/ TaskGetJSON(i) \/ TaskStore(i) \/ TaskFail(i)
       \/ TaskDone(i) \/ TaskPanic(i) \/ Crash(i)

Fairness ==
    /\ WF_vars(MainStep)
    /\ \A i \in 1..MaxItems : WF_vars(TaskStep(i))

SpecFair == Init /\ [][Next]_vars /\ Fairness

(***************************************************************************)
(* SpecPolls: parsePolls applied to polls and targets drawn from bounded   *)
(* sets.                                                                   *)
(***************************************************************************)
InitPolls ==
    /\ PipeIdle("off")
    /\ numPlayers = 0
    /\ pIn \in [polls : PollLists, target : PollTargets]
    /\ pOut = NoResult
    /\ pGame = NoStage
    /\ JsonIdle
    /\ GameIdle
    /\ LoadIdle

\* the metadata document that carries the polls
DocOf(polls) ==
    [malformed |-> FALSE,
     Names |-> << [Name |-> "Catan", Type |-> "primary"] >>,
     MinPlayers |-> 3, MaxPlayers |-> 4,
     Polls |-> polls]

\* line 240: gXML.parsePolls(numPlayers), and fetchGame up to line 243 on the
\* document the polls came in
Classify ==
    /\ pc = "off"
    /\ pOut = NoResult
    /\ pOut' = parsePolls(pIn.polls, pIn.target)
    /\ pGame' = XmlStage(Response(StatusOK, DocOf(pIn.polls)), pIn.target)
    /\ UNCHANGED <<pipeVars, pIn, jsonVars, gameVars, loadVars>>

NextPolls == Classify

SpecPolls == InitPolls /\ [][NextPolls]_vars

(***************************************************************************)
(* SpecJson: jsonDecode applied to statistics pages drawn from bounded     *)
(* sets.  A page is pre \o core \o post: pre holds no needle; core is      *)
(* empty, or the needle and what follows it up to the end of an object,    *)
(* tagged with what a JSON decoder makes of that object.                   *)
(***************************************************************************)
\* the longest run of bytes drawn before the core, and after it
MaxPad == 2

PreTokens == {"x", "{", "}"}

PostTokens == {"x", "{", "}", "N", "a2"}

Core(toks, kind, stats) == [toks |-> toks, kind |-> kind, stats |-> stats]

Cores ==
    { Core(<<>>, "none", ZeroStats),
      Core(<<"x">>, "none", ZeroStats),
      Core(<<"N">>, "nobrace", ZeroStats),
      Core(<<"N", "x">>, "nobrace", ZeroStats),
      Core(<<"N", "x", "{", "i", "{", "s", "{", "a1", "}", "}", "}">>,
           "complete", PayloadStats("a1")),
      Core(<<"N", "{", "i", "{", "s", "{", "a2", "}", "}", "}">>,
           "complete", PayloadStats("a2")),
      Core(<<"N", "{", "o", "{", "a1", "}", "i", "{", "s", "{", "a2", "}", "o", "{", "}", "}", "}">>,
           "complete", PayloadStats("a2")),
      Core(<<"N", "{", "}">>, "complete", ZeroStats),
      Core(<<"N", "{", "i", "{", "s", "{", "b", "}", "}", "}">>, "malformed", ZeroStats),
      Core(<<"N", "{", "x", "}">>, "malformed", ZeroStats),
      Core(<<"N", "{", "i", "}">>, "malformed", ZeroStats),
      Core(<<"N", "{", "i", "{", "s", "{", "a1", "}">>, "incomplete", ZeroStats),
      Core(<<"N", "{">>, "incomplete", ZeroStats) }

Pages == [pre : SeqsUpTo(PreTokens, MaxPad), core : Cores, post : SeqsUpTo(PostTokens, MaxPad)]

\* the bytes of the page
HtmlOf(page) == page.pre \o page.core.toks \o page.post

InitJson ==
    /\ PipeIdle("off")
    /\ numPlayers = 0
    /\ PollsIdle
    /\ jIn \in Pages
    /\ jOut = NoStats
    /\ GameIdle
    /\ LoadIdle

\* line 260: jsonDecode(jsonBody)
Extract ==
    /\ pc = "off"
    /\ jOut = NoStats
    /\ jOut' = jsonDecode(HtmlOf(jIn))
    /\ UNCHANGED <<pipeVars, pollVars, jIn, gameVars, loadVars>>

NextJson == Extract

SpecJson == InitJson /\ [][NextJson]_vars

(***************************************************************************)
(* SpecGame: one fetchGame call on answers drawn from bounded sets, the    *)
(* metadata document with every list of names of up to MaxNames entries.   *)
(***************************************************************************)
\* the longest list of <name> elements drawn
MaxNames == 3

NameEntries ==
    { [Name |-> "Catan", Type |-> "primary"],
      [Name |-> "Settlers", Type |-> "primary"],
      [Name |-> "Die Siedler", Type |-> "alternate"] }

NameLists == SeqsUpTo(NameEntries, MaxNames)

\* the metadata document of DocCatan under other names
DocNamed(names) == [DocCatan EXCEPT !.Names = names]

\* the calls drawn: names is the list of names of the document the metadata
\* GET is answered with, when it is answered
Calls ==
    UNION { { [names |-> ns, xresp |-> x, jresp |-> j, target |-> t] :
                x \in {TransportError} \cup {Response(st, DocNamed(ns)) : st \in Statuses},
                j \in HtmlAnswers,
                t \in Targets } : ns \in NameLists }

\* fetchGame given both answers; the statistics GET is issued only when the
\* first stage went through
fetchGame(xresp, jresp, gameID, targetPlayers, addr) ==
    LET x == XmlStage(xresp, targetPlayers) IN
    IF x.kind = "ok" THEN JsonStage(jresp, x, gameID, addr)
    ELSE IF x.kind = "err" THEN [g |-> NilPtr, jstatus |-> NotIssued, err |-> x.err]
    ELSE [g |-> NilPtr, jstatus |-> NotIssued, err |-> Err(Panic, "")]

InitGame ==
    /\ PipeIdle("off")
    /\ numPlayers = 0
    /\ PollsIdle
    /\ JsonIdle
    /\ gIn \in Calls
    /\ gOut = NoGame
    /\ LoadIdle

\* line 191: fetchGame(client, game.ID, numPlayers)
Enrich ==
    /\ pc = "off"
    /\ gOut = NoGame
    /\ gOut' = fetchGame(gIn.xresp, gIn.jresp, "13", gIn.target, 1)
    /\ UNCHANGED <<pipeVars, pollVars, jsonVars, gIn, loadVars>>

NextGame == Enrich

SpecGame == InitGame /\ [][NextGame]_vars

(***************************************************************************)
(* SpecLoad: the poll loop of the datastore variant, loadGame              *)
(* (src/collection.go:243-281), on polls drawn from bounded sets.  It      *)
(* builds the lists bestAt and recAt of player counts; a label that is no  *)
(* number makes the handler log and return, a row with fewer than three    *)
(* votes makes it panic.                                                   *)
(***************************************************************************)
LoadReturn(b, r, e) == [bestAt |-> b, recAt |-> r, err |-> e]

\* a mutant of LoadCount: the label n+ is recorded as n
LoadCountPlain(label, n) == n

\* src/collection.go lines 268-270: n+ is taken as n+1
LoadCount(label, n) ==
    IF HasSuffixPlus(label) THEN n + 1 ELSE n

\* src/collection.go lines 259-280, from row k on, with the lists built so far
RECURSIVE LoadRows(_, _, _, _)
LoadRows(rows, k, bestAt, recAt) ==
    IF k > Len(rows) THEN LoadReturn(bestAt, recAt, Nil)
    ELSE LET playerCount == rows[k] IN
         IF Len(playerCount.Votes) < 3 THEN LoadReturn(bestAt, recAt, Panic)
         ELSE LET bestVotes == playerCount.Votes[1]
                  recVotes  == playerCount.Votes[2]
                  nayVotes  == playerCount.Votes[3]
                  conv      == Atoi(TrimSuffixPlus(playerCount.NumPlayers))
              IN  IF ~conv.ok THEN LoadReturn(bestAt, recAt, ErrAtoi)
                  ELSE LET count == LoadCount(playerCount.NumPlayers, conv.val) IN
                       IF bestVotes + recVotes <= nayVotes
                       THEN LoadRows(rows, k + 1, bestAt, recAt)
                       ELSE IF bestVotes > recVotes
                       THEN LoadRows(rows, k + 1, Append(bestAt, count), recAt)
                       ELSE LoadRows(rows, k + 1, bestAt, Append(recAt, count))

\* src/collection.go lines 243-281: the selection of the poll (the same loop
\* as in parsePolls) and the loop over its rows
loadGame(polls) ==
    LET playerPoll == SelectPoll(polls, NilPtr) IN
    IF playerPoll = NilPtr THEN LoadReturn(<<>>, <<>>, Nil)
    ELSE LoadRows(playerPoll.Results, 1, <<>>, <<>>)

LoadInputs ==
    {<<>>} \cup {<<[Name |-> PollName, Results |-> rs]>> : rs \in SeqsUpTo(Rows, MaxRows)}

InitLoad ==
    /\ PipeIdle("off")
    /\ numPlayers = 0
    /\ PollsIdle
    /\ JsonIdle
    /\ GameIdle
    /\ lIn \in LoadInputs
    /\ lOut = NoLists

\* src/collection.go lines 243-281
Load ==
    /\ pc = "off"
    /\ lOut = NoLists
    /\ lOut' = loadGame(lIn)
    /\ UNCHANGED <<pipeVars, pollVars, jsonVars, gameVars, lIn>>

NextLoad == Load

SpecLoad == InitLoad /\ [][NextLoad]_vars

(***************************************************************************)
(* Vocabulary of the properties.                                           *)
(***************************************************************************)
\* fetchCollection returned from lines 200-205, after the fan-out
PipelineReturned == pc = "done" /\ ret.err.msg \in {"nil", "no valid games found"}

\* the goroutines whose fetchGame call returned a record
Succeeded == {i \in Tasks : outcome[i] = "ok"}

\* goroutine i ran its deferred wg.Done()
Finished(i) == tpc[i] \in {"done", "fatal"}

LastOf(q) == q[Len(q)]

(***************************************************************************)
(* Properties of the pipeline (Spec).                                      *)
(***************************************************************************)
\* C1: a populated slot at position k, in the slots and in the list
\* fetchCollection returns, holds the record that the goroutine of the k-th
\* identifier built for that identifier, under every interleaving.
C1_OrderPreserved ==
    /\ \A k \in DOMAIN allGames :
         allGames[k] # NilPtr => allGames[k].addr = k /\ allGames[k].ID = items[k]
    /\ PipelineReturned =>
         \A k \in DOMAIN ret.games :
           ret.games[k] # NilPtr => ret.games[k].addr = k /\ ret.games[k].ID = items[k]

\* two records of different identifiers were returned, each in its own position
C1_Witness ==
    /\ PipelineReturned
    /\ Len(ret.games) >= 2
    /\ ret.games[1] # NilPtr
    /\ ret.games[2] # NilPtr
    /\ items[1] # items[2]

\* C2 (as claimed): the list returned without error has one entry per
\* goroutine that succeeded and no absent entry.
C2_HolesOmitted ==
    (PipelineReturned /\ ret.err = NilErr) =>
        /\ Len(ret.games) = Cardinality(Succeeded)
        /\ \A k \in DOMAIN ret.games : ret.games[k] # NilPtr

\* C3: after the fan-out fetchCollection returns an error exactly when no
\* goroutine succeeded, and then no list; with one success it returns a list
\* and no error.
C3_ErrorIffAllFailed ==
    PipelineReturned =>
        /\ (ret.err # NilErr) <=> (Succeeded = {})
        /\ ret.err # NilErr => ret.games = <<>> /\ ret.err.msg = "no valid games found"
        /\ Succeeded # {} => ret.err = NilErr /\ ret.games # <<>>

\* a list is returned with no error although a sibling failed
C3_Witness ==
    /\ PipelineReturned
    /\ ret.err = NilErr
    /\ \E i \in Tasks : outcome[i] = "err"

\* C4: a goroutine whose fetchGame returned an error never writes its slot,
\* and when fetchCollection returns every goroutine that succeeded has its
\* own record in its own slot, whatever its siblings did.
C4_FailureIsolated ==
    /\ \A i \in Tasks : outcome[i] = "err" => allGames[i] = NilPtr /\ writes[i] = <<>>
    /\ PipelineReturned =>
         \A j \in Succeeded : allGames[j] # NilPtr /\ allGames[j].addr = j

\* the first item failed before the second one, which succeeded, was stored
C4_Witness ==
    /\ PipelineReturned
    /\ Len(items) >= 2
    /\ outcome[1] = "err"
    /\ outcome[2] = "ok"
    /\ allGames[2] # NilPtr

\* C5: the slots are read, and fetchCollection returns from the fan-out, only
\* when every identifier had its goroutine launched and every goroutine ran
\* its wg.Done().
C5_JoinBeforeReturn ==
    (pc = "scan" \/ PipelineReturned) =>
        /\ next > Len(items)
        /\ wg = 0
        /\ \A i \in Tasks : Finished(i)

\* the join of two goroutines or more is over and the slots are about to be read
C5_Witness ==
    /\ pc = "scan"
    /\ Len(items) >= 2
    /\ \E i \in Tasks : outcome[i] = "ok"
    /\ \E i \in Tasks : outcome[i] = "err"

\* C6, the states: the goroutines launched are those of the indexes below
\* the loop variable, one each; wg counts those that have not run wg.Done();
\* a slot was written at most once, by the goroutine of its own index, and
\* only after that goroutine's fetchGame succeeded.
C6_Slots ==
    /\ Len(tpc) = Len(items)
    /\ Len(allGames) = Len(items)
    /\ \A i \in Tasks : (tpc[i] # "idle") <=> (i < next)
    /\ pc \in {"wait", "scan"} \/ PipelineReturned => next = Len(items) + 1
    /\ wg = Cardinality({i \in Tasks : tpc[i] # "idle" /\ ~Finished(i)})
    /\ \A k \in DOMAIN writes :
         /\ Len(writes[k]) <= 1
         /\ \A n \in 1..Len(writes[k]) : writes[k][n] = k /\ outcome[k] = "ok"
         /\ (allGames[k] # NilPtr) <=> (writes[k] # <<>>)

\* C6, the steps: a slot that was written never changes.
C6_SlotStable ==
    \A k \in DOMAIN allGames : allGames[k] # NilPtr => allGames'[k] = allGames[k]

\* C6: one goroutine per identifier, each writing its own slot at most once.
C6_OneTaskOneSlot == [](C6_Slots) /\ [][C6_SlotStable]_vars

\* two goroutines of the same identifier wrote their two slots
C6_Witness ==
    /\ Len(items) >= 2
    /\ items[1] = items[2]
    /\ writes[1] = <<1>>
    /\ writes[2] = <<2>>

\* goroutine i holds an answer with the processing status: to its metadata
\* GET, or to its statistics GET
Got202(i) ==
    \/ tloc[i].kind \in {"ok", "ret"} /\ tloc[i].xstatus = StatusText(StatusAccepted)
    \/ tloc[i].kind = "ret" /\ tloc[i].jstatus = StatusText(StatusAccepted)

C8_FeedRetryExactlyOn202 ==
    /\ \A k \in 1..(Len(feedLog) - 1) : feedLog[k] = StatusText(StatusAccepted)
    /\ pc = "get" => feedLog = <<>> \/ LastOf(feedLog) = StatusText(StatusAccepted)
    /\ (feedLog # <<>> /\ LastOf(feedLog) = StatusText(StatusAccepted)) =>
          pc = "get" /\ ret = NoReturn
    /\ (feedLog # <<>> /\ LastOf(feedLog) \in {StatusText(StatusOK), StatusText(404)}) =>
          pc = "read" /\ ret = NoReturn
    /\ pc = "read" => feedLog # <<>> /\ LastOf(feedLog) # Transport

\* the feed fetch is at the GET again after MaxRetries answers of 202
C8_Witness ==
    /\ pc = "get"
    /\ Len(feedLog) = MaxRetries
    /\ \A k \in 1..Len(feedLog) : feedLog[k] = StatusText(StatusAccepted)

\* C9: a transport error is the last thing a fetch sees: the feed fetch
\* returns the error at once, also after 202 answers, and a goroutine whose
\* GET failed has fetchGame return the error of that GET with no further GET.
C9_TransportErrorEndsFetch ==
    /\ \A k \in 1..(Len(feedLog) - 1) : feedLog[k] # Transport
    /\ (feedLog # <<>> /\ LastOf(feedLog) = Transport) =>
          /\ pc = "done"
          /\ ret = Returned(<<>>, Err("error fetching collection", Transport))
          /\ Len(tpc) = 0
    /\ \A i \in Tasks :
         /\ (tloc[i].kind \in {"ok", "ret"} /\ tloc[i].xstatus = Transport) =>
               /\ tpc[i] = "failed"
               /\ tloc[i].jstatus = NotIssued
               /\ tloc[i].err = Err("error fetching game xml", Transport)
         /\ (tloc[i].kind = "ret" /\ tloc[i].jstatus = Transport) =>
               /\ tpc[i] = "failed"
               /\ tloc[i].err = Err("error fetching game json", Transport)

\* the feed GET failed after two answers of 202
C9_Witness ==
    /\ pc = "done"
    /\ Len(feedLog) = 3
    /\ LastOf(feedLog) = Transport
    /\ ret.err.msg = "error fetching collection"

(***************************************************************************)
(* Properties of parsePolls (SpecPolls).                                   *)
(***************************************************************************)
\* the rows of the poll parsePolls selects: the last one named PollName
PlayerPollRows(polls) ==
    LET named == {k \in 1..Len(polls) : polls[k].Name = PollName} IN
    IF named = {} THEN <<>>
    ELSE polls[CHOOSE k \in named : \A j \in named : j <= k].Results

\* the row has its three tallies and a label that is a number
RowReadable(row) ==
    Len(row.Votes) >= 3 /\ Atoi(TrimSuffixPlus(row.NumPlayers)).ok

\* the row passes the vote floor and matches the target
RowHit(row, target) ==
    /\ RowReadable(row)
    /\ row.Votes[1] + row.Votes[2] > row.Votes[3]
    /\ \/ Atoi(TrimSuffixPlus(row.NumPlayers)).val = target
       \/ /\ LastOf(row.NumPlayers) = "+"
          /\ Atoi(TrimSuffixPlus(row.NumPlayers)).val * 2 >= target

\* the rows the scan returns on: the first hit, with only readable rows before it
MatchingRows(polls, target) ==
    LET rows == PlayerPollRows(polls) IN
    {k \in 1..Len(rows) :
        /\ RowHit(rows[k], target)
        /\ \A j \in 1..(k - 1) : RowReadable(rows[j]) /\ ~RowHit(rows[j], target)}

Classified == pOut # NoResult

\* C10: when parsePolls returns on a matching row, exactly one of bestAt and
\* recAt is true, and there is no error.
C10_ExclusiveClassification ==
    (Classified /\ MatchingRows(pIn.polls, pIn.target) # {}) =>
        /\ pOut.err = Nil
        /\ pOut.bestAt # pOut.recAt

\* parsePolls returned recommended, not best, on the second row of a poll
C10_Witness ==
    /\ Classified
    /\ MatchingRows(pIn.polls, pIn.target) = {2}
    /\ pOut.recAt
    /\ ~pOut.bestAt

\* the row parsePolls returns on, when there is one
MatchedRow ==
    LET rows == PlayerPollRows(pIn.polls)
    IN  rows[CHOOSE k \in MatchingRows(pIn.polls, pIn.target) : TRUE]

\* C11: when parsePolls returns on a matching row, bestAt is true exactly when
\* that row has more best votes than recommended votes (a tie is recommended),
\* whatever rows precede it.
C11_BestIffRowBest ==
    (Classified /\ MatchingRows(pIn.polls, pIn.target) # {}) =>
        (pOut.bestAt <=> MatchedRow.Votes[1] > MatchedRow.Votes[2])

\* the row's label names the target: the same count, or an or-more range over it
LabelCovers(row, target) ==
    LET n == Atoi(TrimSuffixPlus(row.NumPlayers)) IN
    /\ n.ok
    /\ \/ n.val = target
       \/ LastOf(row.NumPlayers) = "+" /\ n.val * 2 >= target

\* the row has best + recommended <= not recommended
FloorFails(row) ==
    Len(row.Votes) >= 3 /\ row.Votes[1] + row.Votes[2] <= row.Votes[3]

AllReadable(rows) == \A k \in 1..Len(rows) : RowReadable(rows[k])

\* C12: a row with best + recommended <= not recommended never produces a
\* classification, even when its label covers the target, and the scan goes on
\* with the next row: when every row that covers the target fails the floor the
\* result is (false, false), and a row behind rows that fail the floor is
\* classified by its own tallies.
C12_FloorRowContributesNothing ==
    LET rows == PlayerPollRows(pIn.polls) IN
    (Classified /\ AllReadable(rows)) =>
        /\ (\A k \in 1..Len(rows) : LabelCovers(rows[k], pIn.target) => FloorFails(rows[k]))
               => pOut = PollsReturn(FALSE, FALSE, Nil)
        /\ \A k \in 1..Len(rows) :
               (/\ RowHit(rows[k], pIn.target)
                /\ \A j \in 1..(k - 1) : FloorFails(rows[j]))
               => /\ pOut.err = Nil
                  /\ pOut.bestAt = (rows[k].Votes[1] > rows[k].Votes[2])
                  /\ pOut.recAt = ~pOut.bestAt

\* a row naming the target with tallies 2, 1, 3 was passed over, and the next
\* row was classified recommended
C12_Witness ==
    LET rows == PlayerPollRows(pIn.polls) IN
    /\ Classified
    /\ Len(rows) = 2
    /\ LabelCovers(rows[1], pIn.target)
    /\ rows[1].Votes = <<2, 1, 3>>
    /\ RowHit(rows[2], pIn.target)
    /\ pOut = PollsReturn(FALSE, TRUE, Nil)

\* a poll list whose suggested_numplayers poll is the single row label/votes
OneRow(label, votes) == PlayerPollRows(pIn.polls) = <<Row(label, votes)>>

C14_FirstMatchReturns ==
    LET rows == PlayerPollRows(pIn.polls) IN
    \A k \in MatchingRows(pIn.polls, pIn.target) :
        Classified =>
            /\ pOut.err = Nil
            /\ pOut.recAt = ~pOut.bestAt
            /\ pOut.bestAt <=> \E j \in 1..k : /\ ~FloorFails(rows[j])
                                               /\ rows[j].Votes[1] > rows[j].Votes[2]

\* parsePolls returned recommended on the first row, and the row after it has
\* a label that is not a number
C14_Witness ==
    LET rows == PlayerPollRows(pIn.polls) IN
    /\ Classified
    /\ Len(rows) = 2
    /\ MatchingRows(pIn.polls, pIn.target) = {1}
    /\ rows[2].NumPlayers = <<"x">>
    /\ pOut = PollsReturn(FALSE, TRUE, Nil)

HasPlayerPoll(polls) == \E k \in 1..Len(polls) : polls[k].Name = PollName

\* C15: parsePolls returns (false, false) and no error when no poll is named
\* suggested_numplayers, and when no row of that poll matches the target, also
\* when rows that did not match had more best votes than recommended votes.
C15_NeitherWithoutMatch ==
    LET rows == PlayerPollRows(pIn.polls) IN
    Classified =>
        /\ ~HasPlayerPoll(pIn.polls) => pOut = PollsReturn(FALSE, FALSE, Nil)
        /\ (/\ AllReadable(rows)
            /\ \A k \in 1..Len(rows) : ~RowHit(rows[k], pIn.target))
               => pOut = PollsReturn(FALSE, FALSE, Nil)

\* no row matched, the first row passed the floor with more best votes than
\* recommended votes, and parsePolls returned (false, false)
C15_Witness ==
    LET rows == PlayerPollRows(pIn.polls) IN
    /\ Classified
    /\ Len(rows) = 2
    /\ AllReadable(rows)
    /\ \A k \in 1..2 : ~RowHit(rows[k], pIn.target)
    /\ rows[1].Votes = <<10, 0, 0>>
    /\ pOut = PollsReturn(FALSE, FALSE, Nil)

\* the scan reaches row k: the rows before it are readable and none of them
\* was returned on
Reached(rows, k, target) ==
    \A j \in 1..(k - 1) : RowReadable(rows[j]) /\ ~RowHit(rows[j], target)

\* the row has its three tallies and a label that is no number once a
\* trailing + is stripped
BadLabel(row) ==
    Len(row.Votes) >= 3 /\ ~Atoi(TrimSuffixPlus(row.NumPlayers)).ok

\* C16: when a row reached by the scan has a label that is not an integer
\* after a trailing + is stripped, parsePolls returns an error with both
\* results false, also when the row fails the vote floor, and fetchGame fails
\* with that error.
C16_BadLabelFailsItem ==
    LET rows == PlayerPollRows(pIn.polls) IN
    \A k \in 1..Len(rows) :
        (Classified /\ Reached(rows, k, pIn.target) /\ BadLabel(rows[k])) =>
            /\ pOut = PollsReturn(FALSE, FALSE, ErrAtoi)
            /\ pGame.kind = "err"
            /\ pGame.err = Err("error parsing polls", ErrAtoi)

\* the second row has the label x and fails the vote floor, the first row
\* passed the floor with more best votes: parsePolls returned the error
C16_Witness ==
    LET rows == PlayerPollRows(pIn.polls) IN
    /\ Classified
    /\ Len(rows) = 2
    /\ Reached(rows, 2, pIn.target)
    /\ rows[1].Votes = <<10, 0, 0>>
    /\ rows[2] = Row(<<"x">>, <<2, 1, 3>>)
    /\ pOut = PollsReturn(FALSE, FALSE, ErrAtoi)
    /\ pGame.kind = "err"

\* the record fetchGame builds when every stage succeeded: the provider's one
\* well-formed metadata document and statistics page, for identifier id
CompleteRecord(g, id) ==
    /\ g # NilPtr
    /\ g.Name = "Catan" /\ g.ID = id
    /\ g.Best = (numPlayers = 4) /\ g.Rec = (numPlayers = 3)
    /\ g.MinPlayers = 3 /\ g.MaxPlayers = 4
    /\ [Score |-> g.Score, Weight |-> g.Weight,
        BScore |-> g.BScore, Ratings |-> g.Ratings] = PayloadStats("a1")

\* goroutine i holds what its fetchGame call returned
FetchGameReturned(i) == tloc[i].kind = "ret"

\* C17: fetchGame is all-or-nothing: it returns an error and no record when a
\* stage failed, and a record, built of both answers, only when both GETs were
\* answered 200 and every stage succeeded; so a slot holds nil or a complete
\* record.
C17_AllOrNothing ==
    /\ \A i \in Tasks :
         FetchGameReturned(i) =>
            /\ tloc[i].g = NilPtr <=> tloc[i].err # NilErr
            /\ tloc[i].g # NilPtr =>
                  /\ tloc[i].xstatus = StatusText(StatusOK)
                  /\ tloc[i].jstatus = StatusText(StatusOK)
                  /\ CompleteRecord(tloc[i].g, items[i])
    /\ \A k \in DOMAIN allGames :
         allGames[k] # NilPtr => CompleteRecord(allGames[k], items[k])

\* the statistics extraction of one item failed after its metadata stages had
\* succeeded: fetchGame returned no record, while another slot holds a record
C17_Witness ==
    /\ \E i \in Tasks :
         /\ FetchGameReturned(i)
         /\ tloc[i].err.msg = "Unable to decode json"
         /\ tloc[i].g = NilPtr
    /\ \E k \in DOMAIN allGames : allGames[k] # NilPtr


(***************************************************************************)
(* Properties of jsonDecode (SpecJson).                                    *)
(***************************************************************************)
Extracted == jOut # NoStats

\* the positions of the needle in the page
MarkerAt(html) == {k \in 1..Len(html) : html[k] = Needle}

\* a '{' follows the first occurrence of the needle
BraceAfterFirstMarker(html) ==
    \E m \in MarkerAt(html) :
        /\ \A j \in MarkerAt(html) : m <= j
        /\ \E k \in (m + 1)..Len(html) : html[k] = "{"

\* C18: jsonDecode fails with no record when the needle is absent, and when it
\* is present with no '{' after its first occurrence; otherwise the decoding
\* starts at the first '{' after the first occurrence of the needle, whatever
\* braces stand before it, and fails with a decode error when the object
\* there is malformed or incomplete.
C18_MarkerThenBrace ==
    LET html == HtmlOf(jIn) IN
    Extracted =>
        /\ jOut.err = ErrNoNeedle <=> MarkerAt(html) = {}
        /\ jOut.err = ErrNoBrace <=> (MarkerAt(html) # {} /\ ~BraceAfterFirstMarker(html))
        /\ jOut.err \in {Nil, ErrNoNeedle, ErrNoBrace, ErrBadJSON}
        /\ jOut.err # Nil => jOut.stats = ZeroStats
        /\ jIn.core.kind = "malformed" => jOut.err = ErrBadJSON
        /\ (/\ jIn.core.kind = "incomplete"
            /\ \A k \in 1..Len(jIn.post) : jIn.post[k] # "}") => jOut.err = ErrBadJSON
        /\ jIn.core.kind = "complete" => jOut.err = Nil

\* a page with a complete object before the needle and a statistic that is
\* no number in the object after it: the decode error
C18_Witness ==
    /\ Extracted
    /\ jIn.pre = <<"{", "}">>
    /\ jIn.core.toks = <<"N", "{", "i", "{", "s", "{", "b", "}", "}", "}">>
    /\ jOut = [stats |-> ZeroStats, err |-> ErrBadJSON]

\* C19: the record jsonDecode returns depends only on the first complete
\* object that starts at the first '{' after the needle: whatever bytes stand
\* before the needle and after the end of that object, the four statistics
\* are those of the object and there is no error.
C19_OnlyFirstObjectCounts ==
    (Extracted /\ jIn.core.kind = "complete") =>
        jOut = [stats |-> jIn.core.stats, err |-> Nil]

\* the statistics of the object were returned from a page with braces before
\* the needle and another needle and payload after the object
C19_Witness ==
    /\ Extracted
    /\ jIn.pre = <<"}", "{">>
    /\ jIn.core.stats = PayloadStats("a1")
    /\ jIn.post = <<"N", "a2">>
    /\ jOut = [stats |-> PayloadStats("a1"), err |-> Nil]


(***************************************************************************)
(* Termination of the pipeline (SpecFair).                                 *)
(***************************************************************************)
\* C20: under fair scheduling, when the provider ends up answering the feed
\* request with a status other than 202 and every per-item GET is answered
\* with a response or an error, every goroutine runs its wg.Done() and
\* fetchCollection eventually returns.
C20_EventuallyReturns == <>(pc = "done")

\* what does hold: fetchCollection returns unless the process has died of a
\* goroutine's panic, and every goroutine that left fetchGame, by a return or
\* by the panic, ran its wg.Done() once
ReturnsUnlessCrashed == <>(pc = "done" \/ crashed)

DoneOncePerTask ==
    pc \in {"wait", "scan", "done"} =>
        wg = Cardinality({i \in Tasks : ~Finished(i)})


(***************************************************************************)
(* Order of the stages (Spec).                                             *)
(***************************************************************************)
\* the errors of fetchGame's metadata stages (lines 220, 225, 230, 242)
MetadataErrors ==
    {"error fetching game xml", "Bad status code fetching game xml",
     "error decoding game xml", "error parsing polls"}

\* goroutine i is about to issue, or has issued, the statistics GET
StatsRequested(i) ==
    \/ tpc[i] = "json"
    \/ FetchGameReturned(i) /\ tloc[i].jstatus # NotIssued

\* the statistics GET of goroutine i is answered in this step
StatsAnswered(i) ==
    /\ i \in Tasks
    /\ tloc[i].kind # "ret"
    /\ tloc'[i].kind = "ret"
    /\ tloc'[i].jstatus # NotIssued

C21_Order ==
    \A i \in Tasks :
        /\ tpc[i] = "json" =>
              /\ tloc[i].kind = "ok"
              /\ tloc[i].xstatus = StatusText(StatusOK)
              /\ tloc[i].PrimaryName = "Catan"
        /\ FetchGameReturned(i) =>
              /\ tloc[i].err.msg \in MetadataErrors <=> tloc[i].jstatus = NotIssued
              /\ tloc[i].jstatus # NotIssued => tloc[i].xstatus = StatusText(StatusOK)

C21_StatsStep ==
    \A i \in 1..MaxItems : StatsAnswered(i) => tpc[i] = "json" /\ tloc[i].kind = "ok"

\* C21: within one fetchGame the statistics page is requested only after the
\* metadata GET was answered 200, the metadata decoded and parsePolls returned
\* without error; when one of those fails no statistics request is made for
\* the item.
C21_StagesInSequence == [](C21_Order) /\ [][C21_StatsStep]_vars

\* the classification of one item failed and no statistics page was requested
\* for it, while another item's statistics page was requested
C21_Witness ==
    /\ \E i \in Tasks :
         /\ FetchGameReturned(i)
         /\ tloc[i].err.msg = "error parsing polls"
         /\ tloc[i].jstatus = NotIssued
    /\ \E i \in Tasks : tpc[i] = "json"


\* the goroutines the loop of line 186 has started
Launched == {i \in Tasks : tpc[i] # "idle"}

\* the errors fetchCollection returns before the loop (lines 163, 176, 181)
FeedErrors ==
    {"error fetching collection", "Failed to read collection body", "Failed to unmarshal XML"}

C22_Before ==
    /\ pc \in {"get", "read", "unmarshal"} => Tasks = {} /\ wg = 0
    /\ Launched # {} =>
          /\ pc \in {"spawn", "wait", "scan", "done"}
          /\ ~raw.malformed
          /\ items = raw.Items
    /\ ret.err.msg \in FeedErrors =>
          /\ pc = "done"
          /\ ret.games = <<>>
          /\ Tasks = {} /\ wg = 0
          /\ outcome = <<>> /\ tloc = <<>>

C22_Step ==
    /\ (pc = "get" /\ pc' = "read") =>
          LastOf(feedLog') \notin {Transport, StatusText(StatusAccepted)}
    /\ \A i \in 1..MaxItems :
          (i \in Tasks /\ tpc[i] = "idle" /\ tpc'[i] # "idle") => pc = "spawn"

\* C22: no goroutine is started before the feed GET was answered with a
\* status other than 202 and the body was decoded; a transport error, a read
\* error or a decode error on the feed makes fetchCollection return an error
\* with no goroutine started and no per-item request made.
C22_FeedBeforeTasks == [](C22_Before) /\ [][C22_Step]_vars

\* the feed body did not decode: fetchCollection returned the error and no
\* goroutine exists
C22_Witness ==
    /\ pc = "done"
    /\ ret = Returned(<<>>, Err("Failed to unmarshal XML", "xml"))
    /\ Tasks = {}
    /\ wg = 0


\* C23: for a feed that decodes to zero items fetchCollection starts no
\* goroutine and returns the error "no valid games found", not an empty list
\* with no error.
C23_EmptyFeedIsError ==
    (items = <<>> /\ pc \in {"spawn", "wait", "scan", "done"} /\ ret.err.msg \notin FeedErrors) =>
        /\ Tasks = {}
        /\ wg = 0
        /\ pc # "spawn"
        /\ pc = "done" => ret = Returned(<<>>, Err("no valid games found", ""))

\* the feed decoded to no item and fetchCollection returned the aggregate error
C23_Witness ==
    /\ pc = "done"
    /\ ~raw.malformed
    /\ raw.Items = <<>>
    /\ items = <<>>
    /\ Tasks = {}
    /\ ret = Returned(<<>>, Err("no valid games found", ""))


(***************************************************************************)
(* Further properties of parsePolls (SpecPolls).                           *)
(***************************************************************************)
\* a row without the or-more marker whose count is the target and which
\* fails the vote floor
ExactRowBelowFloor(row, target) ==
    /\ RowReadable(row)
    /\ LastOf(row.NumPlayers) # "+"
    /\ Atoi(row.NumPlayers).val = target
    /\ FloorFails(row)

\* no two rows have the same label
DistinctLabels(rows) ==
    \A j, k \in 1..Len(rows) : rows[j].NumPlayers = rows[k].NumPlayers => j = k

\* every or-more row of the poll has a count above the target
OrMoreAbove(rows, target) ==
    \A k \in 1..Len(rows) :
        LastOf(rows[k].NumPlayers) = "+" =>
            Atoi(TrimSuffixPlus(rows[k].NumPlayers)).val > target

\* C24: when the selected poll has a row without the or-more marker whose
\* count is the target and which fails the vote floor, parsePolls returns
\* neither best nor recommended, whatever the other rows hold; an or-more row
\* with a count larger than the target does not classify the target.  Stated
\* for polls whose other rows have other labels and whose or-more rows have
\* counts above the target.
C24_ExactRowDecides ==
    LET rows == PlayerPollRows(pIn.polls) IN
    (/\ Classified
     /\ AllReadable(rows)
     /\ DistinctLabels(rows)
     /\ OrMoreAbove(rows, pIn.target)
     /\ \E k \in 1..Len(rows) : ExactRowBelowFloor(rows[k], pIn.target))
        => pOut = PollsReturn(FALSE, FALSE, Nil)


(***************************************************************************)
(* Faults (Spec).                                                          *)
(***************************************************************************)
\* C25: a poll row with fewer than three tallies makes at most its own item
\* fail: parsePolls returns without a runtime fault, so no goroutine panics,
\* the process lives on, the sibling goroutines complete and fetchCollection
\* returns.
C25_ShortRowFailsOneItem ==
    /\ \A i \in Tasks : outcome[i] # "panic"
    /\ ~crashed


(***************************************************************************)
(* Determinism (Spec).                                                     *)
(***************************************************************************)
\* the record fetchGame builds for the k-th identifier from the provider's
\* well-formed answers, the only answers it builds a record from
RecordOf(k) ==
    [nil |-> FALSE, addr |-> k, Name |-> "Catan", ID |-> items[k],
     Best |-> (numPlayers = 4), Rec |-> (numPlayers = 3),
     MinPlayers |-> 3, MaxPlayers |-> 4,
     Score |-> PayloadStats("a1").Score, Weight |-> PayloadStats("a1").Weight,
     BScore |-> PayloadStats("a1").BScore, Ratings |-> PayloadStats("a1").Ratings]

\* what the identifiers, the target and the answers each item's requests
\* received determine: a record where both answers were good, nil elsewhere
ExpectedGames ==
    [k \in 1..Len(items) |-> IF outcome[k] = "ok" THEN RecordOf(k) ELSE NilPtr]

\* C26: the list and the error fetchCollection returns are a function of the
\* identifiers, the target and the answers the provider gave to each item's
\* requests, the same under every interleaving and completion order of the
\* goroutines.
C26_OutcomeIsFunction ==
    PipelineReturned =>
        ret = IF \E k \in 1..Len(items) : outcome[k] = "ok"
              THEN Returned(ExpectedGames, NilErr)
              ELSE Returned(<<>>, Err("no valid games found", ""))

\* three items, the second of which failed: fetchCollection returned the
\* records of the first and the third around a nil
C26_Witness ==
    /\ PipelineReturned
    /\ Len(items) = 3
    /\ outcome = <<"ok", "err", "ok">>
    /\ writes = << <<1>>, <<>>, <<3>> >>
    /\ ret = Returned(<<RecordOf(1), NilPtr, RecordOf(3)>>, NilErr)


(***************************************************************************)
(* Selection of the poll (SpecPolls).                                      *)
(***************************************************************************)
\* the rows at which a scan of rows returns for the target: the first hit
FirstHit(rows, target) ==
    {k \in 1..Len(rows) : /\ RowHit(rows[k], target)
                          /\ \A j \in 1..(k - 1) : ~RowHit(rows[j], target)}

\* what a scan of readable rows returns for the target
ScanOf(rows, target) ==
    IF FirstHit(rows, target) = {} THEN PollsReturn(FALSE, FALSE, Nil)
    ELSE LET k == CHOOSE h \in FirstHit(rows, target) : TRUE
             b == \E j \in 1..k : /\ ~FloorFails(rows[j])
                                  /\ rows[j].Votes[1] > rows[j].Votes[2]
         IN  PollsReturn(b, ~b, Nil)

\* C27: of several polls named suggested_numplayers parsePolls uses only the
\* last one in the order of the document, and a poll of another name never
\* influences the result: behind the poll LeadPoll, a second poll of that name
\* decides alone, and a poll of another name leaves the result to LeadPoll.
C27_LastNamedPollOnly ==
    (Classified /\ Len(pIn.polls) = 2) =>
        /\ pIn.polls[1] = LeadPoll
        /\ (pIn.polls[2].Name = PollName /\ AllReadable(pIn.polls[2].Results)) =>
              pOut = ScanOf(pIn.polls[2].Results, pIn.target)
        /\ pIn.polls[2].Name # PollName =>
              pOut = ScanOf(LeadPoll.Results, pIn.target)

\* behind LeadPoll, which has the target 2 as best, a second poll of the name
\* has it as recommended: parsePolls returned recommended
C27_Witness ==
    /\ Classified
    /\ pIn.polls = <<LeadPoll, [Name |-> PollName,
                                Results |-> <<Row(<<"2">>, <<1, 3, 0>>)>>]>>
    /\ pIn.target = 2
    /\ ScanOf(LeadPoll.Results, 2) = PollsReturn(TRUE, FALSE, Nil)
    /\ pOut = PollsReturn(FALSE, TRUE, Nil)


(***************************************************************************)
(* Properties of fetchGame (SpecGame).                                     *)
(***************************************************************************)
Enriched == gOut # NoGame

\* the positions of the names of type primary
Primaries(names) == {k \in 1..Len(names) : names[k].Type = "primary"}

\* both GETs were answered 200 and the statistics page is the well-formed one
GoodAnswers ==
    /\ ~gIn.xresp.failed /\ gIn.xresp.StatusCode = StatusOK
    /\ ~gIn.jresp.failed /\ gIn.jresp.StatusCode = StatusOK
    /\ gIn.jresp.Body = HtmlGood

\* C28: the Name of the record is the first name entry of type primary in the
\* order of the document; when no entry has that type fetchGame still
\* succeeds and the Name is empty.
C28_FirstPrimaryName ==
    Enriched =>
        /\ GoodAnswers <=> gOut.err = NilErr
        /\ gOut.err = NilErr =>
              /\ gOut.g # NilPtr
              /\ \A k \in Primaries(gIn.names) :
                    (\A j \in Primaries(gIn.names) : k <= j) => gOut.g.Name = gIn.names[k].Name
              /\ Primaries(gIn.names) = {} => gOut.g.Name = ""

\* the document has an alternate name only: fetchGame returned a record with
\* the empty Name
C28_Witness ==
    /\ Enriched
    /\ gIn.names = << [Name |-> "Die Siedler", Type |-> "alternate"] >>
    /\ gOut.err = NilErr
    /\ gOut.g.Name = ""
    /\ gOut.g.ID = "13"


(***************************************************************************)
(* Properties of loadGame (SpecLoad).                                      *)
(***************************************************************************)
Loaded == lOut # NoLists

LoadedRows == IF lIn = <<>> THEN <<>> ELSE lIn[1].Results

\* the count loadGame records for a row: n, and n+1 for the label n+
RecordedCount(row) ==
    LET n == Atoi(TrimSuffixPlus(row.NumPlayers)).val IN
    IF LastOf(row.NumPlayers) = "+" THEN n + 1 ELSE n

\* the recorded counts, in the order of the rows, of the rows that pass the
\* vote floor and have more best than recommended votes (best = TRUE), or
\* not more (best = FALSE)
RECURSIVE CountsOf(_, _)
CountsOf(rows, best) ==
    IF rows = <<>> THEN <<>>
    ELSE LET row == Head(rows) IN
         (IF ~FloorFails(row) /\ (row.Votes[1] > row.Votes[2]) = best
          THEN <<RecordedCount(row)>> ELSE <<>>) \o CountsOf(Tail(rows), best)

\* C29: in loadGame every row that passes the vote floor adds its player
\* count to exactly one of the lists Best and Rec, to Best exactly when it has
\* more best than recommended votes; a row that fails the floor adds to
\* neither; the counts are added in the order of the rows and the label n+ is
\* recorded as n+1.
C29_BestRecLists ==
    (Loaded /\ AllReadable(LoadedRows)) =>
        /\ lOut.err = Nil
        /\ lOut.bestAt = CountsOf(LoadedRows, TRUE)
        /\ lOut.recAt = CountsOf(LoadedRows, FALSE)
        /\ Len(lOut.bestAt) + Len(lOut.recAt)
             = Cardinality({k \in 1..Len(LoadedRows) : ~FloorFails(LoadedRows[k])})

\* the rows "2+" with a tie and "2" with best votes only: 3 is recorded as
\* recommended, 2 as best
C29_Witness ==
    /\ Loaded
    /\ LoadedRows = <<Row(<<"2", "+">>, <<5, 5, 0>>), Row(<<"2">>, <<10, 0, 0>>)>>
    /\ lOut = LoadReturn(<<2>>, <<3>>, Nil)

====
